---- MODULE Spec2Model ----
(***************************************************************************)
(* Model of the finnexusai AI placeholder package:                         *)
(*   apps/ai/models/advisory.py   recommend_portfolio                      *)
(*   apps/ai/models/analytics.py  market_analytics                         *)
(*   apps/ai/test_analytics.py    the unit test module and its import      *)
(*                                                                         *)
(* Python values are modelled as follows.  A dict is a record, a list is a *)
(* sequence, a str is a string, an int is an integer.  Dicts and lists are *)
(* mutable objects: every evaluation of a dict display allocates a new     *)
(* object on the heap and the caller receives a reference to it.  A call   *)
(* is two steps (Invoke, Complete) so that calls of several callers overlap. *)
(***************************************************************************)
EXTENDS Integers, Sequences, FiniteSets, TLC

VARIABLES
    heap,        \* heap[ref]: current value of the object a call constructed
    frames,      \* the calls in flight, at most one per caller
    calls,       \* the completed calls, in order of completion
    mutations,   \* what callers did, in place, to the results they hold
    testModule   \* how far loading and running test_analytics.py has got

vars == <<heap, frames, calls, mutations, testModule>>

----------------------------------------------------------------------------
(* Bounds of the model *)

MaxCalls == 2
MaxMutations == 1

Callers == {"c1", "c2"}

\* Argument values: the null value and an empty mapping.
PyValues == {"None", "{}"}

Functions == {"recommend_portfolio", "market_analytics"}

----------------------------------------------------------------------------
(* Outcomes of a Python call: it returns a value or raises an exception *)

Return(v) == [kind |-> "return", value |-> v]

Raise(e) == [kind |-> "raise", value |-> [exception |-> e]]

----------------------------------------------------------------------------
(* advisory.py *)

\* Variant: the reasoning text is taken from the profile when one is given.
recommend_portfolio_uses_profile(user_profile, market_data) ==
    Return([recommendation |-> "Buy $500 ETH if it dips 5%",
            reasoning      |-> IF user_profile = "None"
                               THEN "ETH shows strong support at current levels."
                               ELSE user_profile])

\* Variant: the profile is read with .get(), which null does not have.
recommend_portfolio_reads_profile(user_profile, market_data) ==
    IF user_profile = "None"
    THEN Raise("AttributeError")
    ELSE Return([recommendation |-> "Buy $500 ETH if it dips 5%",
                 reasoning      |-> "ETH shows strong support at current levels."])

\* Variant: the amount grows with the number of calls completed so far.
recommend_portfolio_counts_calls(user_profile, market_data) ==
    Return([recommendation |-> IF Len(calls) = 0
                               THEN "Buy $500 ETH if it dips 5%"
                               ELSE "Buy $1000 ETH if it dips 5%",
            reasoning      |-> "ETH shows strong support at current levels."])

recommend_portfolio(user_profile, market_data) ==
    Return([recommendation |-> "Buy $500 ETH if it dips 5%",
            reasoning      |-> "ETH shows strong support at current levels."])

(* analytics.py *)

\* Variant: the top traders are listed in the opposite order.
market_analytics_reversed_traders(market_data, sentiment_data) ==
    Return([marketSentiment |-> "Bullish",
            topTraders      |-> <<"bob", "alice">>,
            leaderboard     |-> <<[username |-> "alice", score |-> 100],
                                  [username |-> "bob",   score |-> 90]>>])

\* Variant: the leaderboard scores are not in descending order.
market_analytics_unsorted(market_data, sentiment_data) ==
    Return([marketSentiment |-> "Bullish",
            topTraders      |-> <<"alice", "bob">>,
            leaderboard     |-> <<[username |-> "alice", score |-> 90],
                                  [username |-> "bob",   score |-> 100]>>])

\* Variant: the sentiment depends on the other calls in flight.
market_analytics_reads_frames(market_data, sentiment_data) ==
    Return([marketSentiment |-> IF Cardinality(frames) > 1
                                THEN "Bearish" ELSE "Bullish",
            topTraders      |-> <<"alice", "bob">>,
            leaderboard     |-> <<[username |-> "alice", score |-> 100],
                                  [username |-> "bob",   score |-> 90]>>])

market_analytics(market_data, sentiment_data) ==
    Return([marketSentiment |-> "Bullish",
            topTraders      |-> <<"alice", "bob">>,
            leaderboard     |-> <<[username |-> "alice", score |-> 100],
                                  [username |-> "bob",   score |-> 90]>>])

\* The body of the function a frame runs.
Body(fn, arg1, arg2) ==
    IF fn = "recommend_portfolio"
    THEN recommend_portfolio(arg1, arg2)
    ELSE market_analytics(arg1, arg2)

\* Variant: the result is built once and the same object is handed out to
\* every later call of the function.
ConstructCached(h, obj) ==
    IF \E r \in 1..Len(h) : DOMAIN h[r] = DOMAIN obj
    THEN [heap |-> h,
          ref  |-> CHOOSE r \in 1..Len(h) : DOMAIN h[r] = DOMAIN obj]
    ELSE [heap |-> Append(h, obj), ref |-> Len(h) + 1]

\* A dict display in a return statement builds a new object on every
\* evaluation: the object is placed at a reference no one holds yet.
Construct(h, obj) == [heap |-> Append(h, obj), ref |-> Len(h) + 1]

----------------------------------------------------------------------------
(* Calls *)

InFlight(c) == \E f \in frames : f.caller = c

\* Caller c calls fn(arg1, arg2).
Invoke(c, fn, arg1, arg2) ==
    /\ ~InFlight(c)
    /\ Len(calls) + Cardinality(frames) < MaxCalls
    /\ frames' = frames \cup
                   { [caller |-> c, fn |-> fn, arg1 |-> arg1, arg2 |-> arg2] }
    /\ UNCHANGED <<heap, calls, mutations, testModule>>

\* The frame of caller c runs its body to the end.  The completed call is
\* logged with what it returned and whether another call was in flight.
Complete(c) ==
    \E f \in frames :
        /\ f.caller = c
        /\ LET out == Body(f.fn, f.arg1, f.arg2)
               new == Construct(heap, out.value)
               rec == [fn |-> f.fn, arg1 |-> f.arg1, arg2 |-> f.arg2,
                       overlapped |-> frames # {f}]
           IN  IF out.kind = "return"
               THEN /\ heap' = new.heap
                    /\ calls' = Append(calls,
                                  rec @@ [kind |-> "return", ref |-> new.ref,
                                          value |-> new.heap[new.ref]])
               ELSE /\ heap' = heap
                    /\ calls' = Append(calls,
                                  rec @@ [kind |-> "raise", ref |-> 0,
                                          value |-> out.value])
        /\ frames' = frames \ {f}
        /\ UNCHANGED <<mutations, testModule>>

----------------------------------------------------------------------------
(* What a caller can do to a result it holds: dicts and lists are mutable *)

MutationOps == {"append_topTraders", "set_score", "overwrite_recommendation"}

Applies(op, obj) ==
    IF op = "overwrite_recommendation"
    THEN "recommendation" \in DOMAIN obj
    ELSE "topTraders" \in DOMAIN obj

ApplyMutation(op, obj) ==
    CASE op = "append_topTraders" ->
             [obj EXCEPT !.topTraders = Append(@, "mallory")]
      [] op = "set_score" ->
             [obj EXCEPT !.leaderboard[1].score = 0]
      [] op = "overwrite_recommendation" ->
             [obj EXCEPT !.recommendation = "Sell everything"]

\* The caller of the i-th completed call mutates, in place, the object the
\* call returned to it.  The mutation is logged with the number of calls
\* completed by then.
Mutate(i, op) ==
    /\ i \in 1..Len(calls)
    /\ Cardinality(mutations) < MaxMutations
    /\ ~\E m \in mutations : m.call = i /\ m.op = op
    /\ calls[i].kind = "return"
    /\ Applies(op, heap[calls[i].ref])
    /\ heap' = [heap EXCEPT ![calls[i].ref] = ApplyMutation(op, @)]
    /\ mutations' = mutations \cup {[call |-> i, op |-> op, at |-> Len(calls)]}
    /\ UNCHANGED <<frames, calls, testModule>>

----------------------------------------------------------------------------
(* test_analytics.py *)

\* The source files, as (directory, module name).
Files ==
    { [dir |-> "apps/ai",        module |-> "test_analytics"],
      [dir |-> "apps/ai/models", module |-> "analytics"],
      [dir |-> "apps/ai/models", module |-> "advisory"] }

\* The directories a module search path can hold.
Dirs == { f.dir : f \in Files }

\* Variant: the module analytics also defines the function the test imports.
analytics_namespace_with_advanced == {"market_analytics", "get_advanced_analytics"}

\* The names the module analytics binds at top level.
analytics_namespace == {"market_analytics"}

\* The names the module advisory binds at top level.
advisory_namespace == {"recommend_portfolio"}

Namespace(module) ==
    CASE module = "analytics" -> analytics_namespace
      [] module = "advisory"  -> advisory_namespace
      [] OTHER                -> {}

\* from <module> import <name>, with the module search path `path`.
ImportFrom(path, module, name) ==
    IF ~\E f \in Files : f.module = module /\ f.dir \in path
    THEN "ModuleNotFoundError"
    ELSE IF name \notin Namespace(module)
    THEN "ImportError"
    ELSE "imported"

\* A Python float, by value in hundredths.
Float(hundredths) == [hundredths |-> hundredths]

\* Calling a name with no arguments: the functions of the repository all
\* take two positional arguments, and any other name is unbound.
CallNoArgs(name) ==
    IF name \in Functions THEN Raise("TypeError") ELSE Raise("NameError")

\* The assertions of TestAIAnalytics.test_get_advanced_analytics.
test_get_advanced_analytics(result) ==
    /\ "forecasts" \in DOMAIN result
    /\ "volatility" \in DOMAIN result
    /\ "riskScores" \in DOMAIN result
    /\ result.forecasts = <<1200, 950, 800>>
    /\ result.volatility = Float(12)
    /\ result.riskScores = <<Float(20), Float(40), Float(10)>>

\* Running the test module: first its import statement, then, if the
\* module loaded, the test body.
RunTestModule(path) ==
    /\ testModule \in {"unloaded", "imported"}
    /\ testModule' =
         IF testModule = "unloaded"
         THEN ImportFrom(path, "analytics", "get_advanced_analytics")
         ELSE LET out == CallNoArgs("get_advanced_analytics")
              IN  IF out.kind = "raise" THEN "test_error"
                  ELSE IF test_get_advanced_analytics(out.value)
                  THEN "test_passed"
                  ELSE "test_failed"
    /\ UNCHANGED <<heap, frames, calls, mutations>>

----------------------------------------------------------------------------
Init ==
    /\ heap = <<>>
    /\ frames = {}
    /\ calls = <<>>
    /\ mutations = {}
    /\ testModule = "unloaded"

Next ==
    \/ \E c \in Callers, fn \in Functions, a1 \in PyValues, a2 \in PyValues :
           Invoke(c, fn, a1, a2)
    \/ \E c \in Callers : Complete(c)
    \/ \E i \in 1..MaxCalls, op \in MutationOps : Mutate(i, op)
    \/ \E path \in SUBSET Dirs : RunTestModule(path)

Spec == Init /\ [][Next]_vars

----------------------------------------------------------------------------
(* The values the specification gives for the two results *)

ExpectedPortfolioAdvice ==
    [recommendation |-> "Buy $500 ETH if it dips 5%",
     reasoning      |-> "ETH shows strong support at current levels."]

ExpectedMarketAnalyticsReport ==
    [marketSentiment |-> "Bullish",
     topTraders      |-> <<"alice", "bob">>,
     leaderboard     |-> <<[username |-> "alice", score |-> 100],
                           [username |-> "bob",   score |-> 90]>>]

Completed == 1..Len(calls)

CallsOf(fn) == { i \in Completed : calls[i].fn = fn }

SameCall(i, j) ==
    /\ calls[i].fn = calls[j].fn
    /\ calls[i].arg1 = calls[j].arg1
    /\ calls[i].arg2 = calls[j].arg2

----------------------------------------------------------------------------
\* C1: every call of recommend_portfolio, whatever its two inputs, returns
\* the mapping with exactly the keys recommendation and reasoning and the
\* two fixed texts.
C1_RecommendPortfolioFixed ==
    \A i \in CallsOf("recommend_portfolio") :
        /\ calls[i].kind = "return"
        /\ calls[i].value = ExpectedPortfolioAdvice
        /\ DOMAIN calls[i].value = {"recommendation", "reasoning"}

\* recommend_portfolio has returned for two different pairs of inputs.
C1_Witness ==
    \E i, j \in CallsOf("recommend_portfolio") :
        /\ calls[i].arg1 # calls[j].arg1
        /\ calls[i].arg2 # calls[j].arg2

\* C2: every call of market_analytics, whatever its two inputs, returns the
\* mapping with exactly the keys marketSentiment, topTraders and leaderboard,
\* the two sequences in the fixed order.
C2_MarketAnalyticsFixed ==
    \A i \in CallsOf("market_analytics") :
        /\ calls[i].kind = "return"
        /\ calls[i].value = ExpectedMarketAnalyticsReport
        /\ DOMAIN calls[i].value = {"marketSentiment", "topTraders", "leaderboard"}
        /\ calls[i].value.topTraders[1] = "alice"
        /\ calls[i].value.leaderboard[2] = [username |-> "bob", score |-> 90]

\* market_analytics has returned for two different pairs of inputs.
C2_Witness ==
    \E i, j \in CallsOf("market_analytics") :
        /\ calls[i].arg1 # calls[j].arg1
        /\ calls[i].arg2 # calls[j].arg2

----------------------------------------------------------------------------
\* C4: neither function has an error outcome: every call that was started
\* can run to its end, and every completed call, whatever its arguments
\* (null and empty mappings included), returned a mapping and raised nothing.
C4_NoErrorOutcome ==
    /\ \A f \in frames : ENABLED Complete(f.caller)
    /\ \A i \in Completed :
          /\ calls[i].kind = "return"
          /\ calls[i].ref \in 1..Len(heap)
          /\ "exception" \notin DOMAIN calls[i].value

\* Both functions have completed a call whose two arguments are null.
C4_Witness ==
    /\ \E i \in CallsOf("recommend_portfolio") :
          calls[i].arg1 = "None" /\ calls[i].arg2 = "None"
    /\ \E i \in CallsOf("market_analytics") :
          calls[i].arg1 = "None" /\ calls[i].arg2 = "None"

\* C5: idempotence: a call returns what the first call of the same function
\* with the same arguments returned, however many calls came before it.
C5_Idempotent ==
    \A i, j \in Completed :
        (i < j /\ SameCall(i, j)) =>
            /\ calls[j].kind = calls[i].kind
            /\ calls[j].value = calls[i].value

\* A function was called twice with the same arguments.
C5_Witness ==
    \E i, j \in Completed : i < j /\ SameCall(i, j)

\* C7: every call constructs a fresh result: no two calls returned the same
\* object, a result no caller mutated still has the value it was returned
\* with, and every call, also one completed after a mutation, returned the
\* original literal value.
C7_FreshResults ==
    /\ \A i, j \in Completed : i # j => calls[i].ref # calls[j].ref
    /\ \A i \in Completed :
          (~\E m \in mutations : m.call = i) =>
              heap[calls[i].ref] = calls[i].value
    /\ \A i \in Completed :
          calls[i].value = IF calls[i].fn = "recommend_portfolio"
                           THEN ExpectedPortfolioAdvice
                           ELSE ExpectedMarketAnalyticsReport

\* A caller mutated a result and the same function then completed another
\* call, whose result no one mutated.
C7_Witness ==
    \E m \in mutations : \E j \in Completed :
        /\ j > m.at
        /\ calls[j].fn = calls[m.call].fn
        /\ heap[calls[m.call].ref] # calls[m.call].value
        /\ ~\E n \in mutations : n.call = j

\* What a call returns when it is the first and only call of the program.
CalledAlone(fn, arg1, arg2) ==
    LET out == Body(fn, arg1, arg2)
        new == Construct(<<>>, out.value)
    IN  new.heap[new.ref]

\* C8: the units are independent: in every order and interleaving of calls
\* each call returns what it returns when called alone as the first call,
\* and a call can be started whatever was called before it.
C8_Independent ==
    /\ \A i \in Completed :
          /\ calls[i].kind = "return"
          /\ calls[i].value = CalledAlone(calls[i].fn, calls[i].arg1, calls[i].arg2)
    /\ \A c \in Callers :
          (~InFlight(c) /\ Len(calls) + Cardinality(frames) < MaxCalls) =>
              \A fn \in Functions : ENABLED Invoke(c, fn, "None", "{}")

\* Calls of the two functions overlapped: one completed while the other was
\* in flight, and then the other completed.
C8_Witness ==
    \E i, j \in Completed :
        /\ i < j
        /\ calls[i].overlapped
        /\ calls[i].fn # calls[j].fn

Descending(lb) == \A k \in 1..(Len(lb) - 1) : lb[k].score > lb[k + 1].score

\* C9: in every report market_analytics returned the leaderboard is in
\* strictly descending order of score, its usernames are pairwise distinct
\* and topTraders is the sequence of its usernames in the same order.
C9_ReportConsistent ==
    \A i \in CallsOf("market_analytics") :
        LET r == calls[i].value
        IN  /\ Descending(r.leaderboard)
            /\ \A k, l \in 1..Len(r.leaderboard) :
                  k # l => r.leaderboard[k].username # r.leaderboard[l].username
            /\ Len(r.topTraders) = Len(r.leaderboard)
            /\ \A k \in 1..Len(r.topTraders) :
                  r.topTraders[k] = r.leaderboard[k].username

\* market_analytics returned a report with at least two leaderboard entries.
C9_Witness ==
    \E i \in CallsOf("market_analytics") : Len(calls[i].value.leaderboard) >= 2

----------------------------------------------------------------------------
\* C3: the module analytics provides get_advanced_analytics and the call
\* returns the mapping the test expects: once the module is found, the
\* import succeeds and the assertions of the test pass.
C3_AdvancedAnalyticsProvided ==
    /\ testModule \notin {"ImportError", "test_error", "test_failed"}
    /\ (testModule # "unloaded" /\ testModule # "ModuleNotFoundError")
          => "get_advanced_analytics" \in Namespace("analytics")

====
